---- MODULE Spec2Model ----
(***************************************************************************)
(* State-machine model of the forms backend: the submission lifecycle      *)
(* (SubmissionsService: start, upsertAnswer, upsertAnswersAndSubmit,       *)
(* submit) over the relational store of the Prisma migration, together     *)
(* with the parts of the forms, users and auth services that decide who    *)
(* may start a submission.                                                 *)
(*                                                                         *)
(* Every `await prisma...` of a handler is one atomic step of the store;   *)
(* the synchronous code that follows it runs in the same step.  Requests   *)
(* are served concurrently, so steps of different calls interleave.        *)
(*                                                                         *)
(* Nullable columns and optional DTO fields are sequences of length at     *)
(* most one: <<>> is null / undefined, <<x>> is the value x.  A text value *)
(* is a sequence of one-character strings.  Row timestamps other than      *)
(* submittedAt (startedAt, createdAt, updatedAt) are not modelled.         *)
(***************************************************************************)
EXTENDS Integers, Sequences, FiniteSets, TLC

\* ------------------------------------------------------------------ bounds

\* Forms that may be created; form ids 1..MaxForms+1 may be requested.
MaxForms == 1
\* Rows the form_submissions table may hold.
MaxSubmissions == 2
\* Largest value of the wall clock read by `new Date()`.
MaxClock == 1
\* Largest minChoices / maxChoices a question update may set.
MaxChoices == 2
\* Longest text value a request may carry.
MaxTextLen == 2

Users == {"u1", "u2"}
Procs == {"p1", "p2"}
FormIds == 1..(MaxForms + 1)
QuestionIds == {"q1", "q2", "qx"}
OptionIds == {"o1", "o2", "ox"}

None == <<>>
Some(x) == <<x>>

\* ------------------------------------------------------------- enum types

UserRole == {"admin", "creator", "common"}
QuestionType == {"text", "checkbox", "radio"}
SubmissionStatus == {"in_progress", "submitted"}

VARIABLES
    refreshTokens,   \* refresh_tokens table: raw token -> row, for the tokens
                     \* whose redemption is followed
    role,            \* users.role
    tokenRole,       \* role claim of the access token each user presents
    forms,           \* forms table: sequence indexed by form id
    questions,       \* questions table: question id -> row
    options,         \* question_options table: option id -> owning question id
    submissions,     \* form_submissions table: sequence indexed by submission id
    answers,         \* answers table: set of rows
    selectedOptions, \* answer_selected_options table: set of rows
    now,             \* latest wall-clock time read by `new Date()`
    call,            \* per request slot: the call in flight and its position
    resp             \* the response sent by the last step, if it sent one

db == <<forms, questions, options, submissions, answers, selectedOptions>>
vars == <<refreshTokens, role, tokenRole, forms, questions, options,
          submissions, answers, selectedOptions, now, call, resp>>

\* ------------------------------------------------------------ call records

Idle == [op |-> "none", pc |-> "idle", formId |-> 0, userId |-> "",
         submissionId |-> 0, dtos |-> <<>>, qsnap |-> <<>>, deleted |-> {},
         token |-> ""]
\* A response: the handler that answered, the HttpError's code and message
\* (details.questionId where the code sets it), or OK with the identity of
\* the submission returned, with the identities of the submissions listed,
\* or with the new refresh token.
NoResp == [op |-> "none", code |-> "none", message |-> "", id |-> 0,
           questionId |-> "", list |-> {}, token |-> ""]
Ok(id) == [NoResp EXCEPT !.code = "OK", !.id = id]
notFound(m) == [NoResp EXCEPT !.code = "NOT_FOUND", !.message = m]
forbidden(m) == [NoResp EXCEPT !.code = "FORBIDDEN", !.message = m]
unauthorized(m) == [NoResp EXCEPT !.code = "UNAUTHORIZED", !.message = m]
badRequest(m) == [NoResp EXCEPT !.code = "BAD_REQUEST", !.message = m]
badRequestAt(m, q) == [badRequest(m) EXCEPT !.questionId = q]
\* validate(schema): a body the schema rejects is answered 422.
validationError == [NoResp EXCEPT !.code = "VALIDATION_ERROR",
                                  !.message = "Validation error"]
\* errorMiddleware: a Prisma P2002 error becomes 409 CONFLICT.
uniqueViolation == [NoResp EXCEPT !.code = "CONFLICT",
                                  !.message = "Unique constraint violation"]

\* The call of slot p ends and r is sent as the response of handler op.
Finish(p, op, r) ==
    /\ call' = [call EXCEPT ![p] = Idle]
    /\ resp' = [r EXCEPT !.op = op]

\* The call of slot p moves on; nothing is sent.
Goto(p, c) ==
    /\ call' = [call EXCEPT ![p] = c]
    /\ resp' = NoResp

\* ------------------------------------------------------------------ store

\* Submission ids a request may name: every stored one, and one that is not.
RequestedIds == 1..(Len(submissions) + 1)

FormExists(f) == f \in 1..Len(forms)
SubmissionExists(s) == s \in 1..Len(submissions)

\* CREATE UNIQUE INDEX uq_one_in_progress_per_user_form
\*   ON form_submissions(form_id, respondent_user_id, status):
\* whether a row other than `except` already holds the key (f, u, st).
UniqueKeyTaken(f, u, st, except) ==
    \E s \in 1..Len(submissions) :
        /\ s # except
        /\ submissions[s].formId = f
        /\ submissions[s].respondentUserId = u
        /\ submissions[s].status = st

\* The same lookup with no filter on status.
SubmissionsOfAnyStatus(f, u) ==
    {s \in 1..Len(submissions) :
        /\ submissions[s].formId = f
        /\ submissions[s].respondentUserId = u}

\* prisma.formSubmission.findFirst({where: {formId, respondentUserId, status: "in_progress"}})
InProgressOf(f, u) ==
    {s \in 1..Len(submissions) :
        /\ submissions[s].formId = f
        /\ submissions[s].respondentUserId = u
        /\ submissions[s].status = "in_progress"}

\* ------------------------------------------------------------------ start

canStartUnpublishedForm(r, userId, ownerUserId) ==
    IF r = "admin" THEN TRUE
    ELSE IF r = "creator" /\ userId = ownerUserId THEN TRUE
    ELSE FALSE

StartsInFlight == Cardinality({q \in Procs : call[q].op = "start"})

\* start, lines 27-37: load the form, check publication and permission.
\* A call is taken while the table has room for the row it may insert.
StartLoadForm(p, f, u) ==
    /\ call[p].pc = "idle"
    /\ Len(submissions) + StartsInFlight < MaxSubmissions
    /\ IF ~FormExists(f)
         THEN Finish(p, "start", notFound("Form not found"))
         ELSE IF /\ ~forms[f].isPublished
                 /\ ~canStartUnpublishedForm(tokenRole[u], u, forms[f].ownerUserId)
                THEN Finish(p, "start", forbidden("Form is not published"))
                ELSE Goto(p, [Idle EXCEPT !.op = "start", !.pc = "start_find",
                                          !.formId = f, !.userId = u])
    /\ UNCHANGED <<refreshTokens, role, tokenRole, db, now>>

\* start, lines 40-54: look for the caller's in_progress submission.
StartFindExisting(p) ==
    /\ call[p].pc = "start_find"
    /\ LET existing == InProgressOf(call[p].formId, call[p].userId) IN
         IF existing # {}
           THEN \E s \in existing : Finish(p, "start", Ok(s))
           ELSE Goto(p, [call[p] EXCEPT !.pc = "start_create"])
    /\ UNCHANGED <<refreshTokens, role, tokenRole, db, now>>

\* The insert on a table that has no unique index.
CreateWithoutUniqueIndex(f, u) == FALSE

\* prisma.formSubmission.create under the unique index.
CreateSubmissionRejected(f, u) == UniqueKeyTaken(f, u, "in_progress", 0)

\* start, lines 56-75: insert the new row.
StartCreate(p) ==
    /\ call[p].pc = "start_create"
    /\ IF CreateSubmissionRejected(call[p].formId, call[p].userId)
         THEN /\ Finish(p, "start", uniqueViolation)
              /\ UNCHANGED submissions
         ELSE /\ submissions' = Append(submissions,
                     [formId |-> call[p].formId,
                      respondentUserId |-> call[p].userId,
                      status |-> "in_progress",
                      submittedAt |-> None])
              /\ Finish(p, "start", Ok(Len(submissions) + 1))
    /\ UNCHANGED <<refreshTokens, role, tokenRole, forms, questions, options, answers,
                   selectedOptions, now>>

\* ------------------------------------------------------------ answer DTOs

Range(s) == {s[i] : i \in 1..Len(s)}

\* Array.from(new Set(xs)): first occurrences, in order.
RECURSIVE Dedupe(_)
Dedupe(xs) ==
    IF xs = <<>> THEN <<>>
    ELSE LET front == Dedupe(SubSeq(xs, 1, Len(xs) - 1))
             x == xs[Len(xs)]
         IN IF x \in Range(front) THEN front ELSE Append(front, x)

\* dto.selectedOptionIds ?? []
SelectedOrEmpty(dto) ==
    IF dto.selectedOptionIds = None THEN <<>> ELSE dto.selectedOptionIds[1]

\* upsertAnswerSchema: the refinement rejects a body with both fields.
upsertAnswerSchema(dto) ==
    ~(dto.textValue # None /\ dto.selectedOptionIds # None)

\* The guard without its check of the status.
EditGuardWithoutStatus(s, u) ==
    IF ~SubmissionExists(s) THEN Some(notFound("Submission not found"))
    ELSE IF submissions[s].respondentUserId # u
      THEN Some(forbidden("You can only answer your own submission"))
    ELSE None

\* upsertAnswersSchema: z.array(upsertAnswerSchema).min(1)
upsertAnswersSchema(dtos) ==
    /\ Len(dtos) >= 1
    /\ \A i \in 1..Len(dtos) : upsertAnswerSchema(dtos[i])

\* getSubmissionOrThrow and the two state-machine checks that follow it
\* (upsertAnswer 181-184, upsertAnswersAndSubmit 116-119): the error, or None.
EditGuard(s, u) ==
    IF ~SubmissionExists(s) THEN Some(notFound("Submission not found"))
    ELSE IF submissions[s].status # "in_progress"
      THEN Some(forbidden("Submission is not in progress"))
    ELSE IF submissions[s].respondentUserId # u
      THEN Some(forbidden("You can only answer your own submission"))
    ELSE None

\* The validation with the radio check alone.
ShapeErrorRadioOnly(question, dto) ==
    IF question.type = "radio" /\ Len(Dedupe(SelectedOrEmpty(dto))) > 1
      THEN Some(badRequest("Radio questions allow only one selected option"))
      ELSE None

\* The validation without the radio check.
ShapeErrorWithoutRadio(question, dto) ==
    IF question.type = "text"
      THEN IF dto.selectedOptionIds # None /\ Len(dto.selectedOptionIds[1]) > 0
             THEN Some(badRequest("Text questions cannot have selectedOptionIds"))
           ELSE IF dto.textValue = None
             THEN Some(badRequest("textValue is required for text questions"))
           ELSE None
      ELSE IF dto.textValue # None
             THEN Some(badRequest("Checkbox/Radio questions cannot have textValuey"))
           ELSE None

\* Shape validation of one DTO against its question (upsertAnswer 202-219,
\* upsertAnswersAndSubmit 144-151): the error, or None.
ShapeError(question, dto) ==
    IF question.type = "text"
      THEN IF dto.selectedOptionIds # None /\ Len(dto.selectedOptionIds[1]) > 0
             THEN Some(badRequest("Text questions cannot have selectedOptionIds"))
           ELSE IF dto.textValue = None
             THEN Some(badRequest("textValue is required for text questions"))
           ELSE None
      ELSE IF dto.textValue # None
             THEN Some(badRequest("Checkbox/Radio questions cannot have textValuey"))
           ELSE IF question.type = "radio" /\ Len(Dedupe(SelectedOrEmpty(dto))) > 1
             THEN Some(badRequest("Radio questions allow only one selected option"))
           ELSE None

\* dto.textValue ?? "" for every type of question.
StoredTextOrEmpty(question, dto) ==
    IF dto.textValue = None THEN Some(<<>>) ELSE dto.textValue

\* textValue: question.type === "text" ? (dto.textValue ?? null) : null
StoredText(question, dto) ==
    IF question.type = "text" THEN dto.textValue ELSE None

\* An insert of the answer row where the upsert is.
InsertAnswerRow(rows, s, q, text) ==
    rows \cup {[submissionId |-> s, questionId |-> q, textValue |-> text]}

\* prisma.answer.upsert on (submissionId, questionId).
UpsertAnswerRow(rows, s, q, text) ==
    {a \in rows : ~(a.submissionId = s /\ a.questionId = q)}
        \cup {[submissionId |-> s, questionId |-> q, textValue |-> text]}

\* deleteMany({answerId}) then createMany(selected) in one transaction.
ReplaceSelection(rows, s, q, selected) ==
    {r \in rows : ~(r.submissionId = s /\ r.questionId = q)}
        \cup {[submissionId |-> s, questionId |-> q, optionId |-> o] :
                o \in Range(selected)}

\* The selection an upsert stores for its question (259-280, 160-171).
NewSelection(question, dto) ==
    IF question.type # "text" THEN Dedupe(SelectedOrEmpty(dto)) ELSE <<>>

\* ----------------------------------------------------------- upsertAnswer

\* prisma.questionOption.findMany({where: {id: {in: ids}, questionId}})
OptionsOfQuestion(ids, q) ==
    {o \in Range(ids) : o \in DOMAIN options /\ options[o] = q}

\* upsertAnswer, lines 186-231, for a submission of form f: the question
\* lookup, the shape validation and the option lookup; the error, or None.
UpsertValidation(f, dto) ==
    IF dto.questionId \notin DOMAIN questions
      THEN Some(notFound("Question not found"))
    ELSE LET question == questions[dto.questionId]
             uniqueSelected == Dedupe(SelectedOrEmpty(dto)) IN
      IF question.formId # f
        THEN Some(badRequest("Question does not belong to this form"))
      ELSE IF ShapeError(question, dto) # None
        THEN ShapeError(question, dto)
      ELSE IF /\ question.type # "text"
              /\ Len(uniqueSelected) > 0
              /\ Cardinality(OptionsOfQuestion(uniqueSelected, dto.questionId))
                    # Len(uniqueSelected)
        THEN Some(badRequest("One or more selected options are invalid for this question"))
      ELSE None

\* The validate middleware of the route, then upsertAnswer, lines 181-231:
\* everything before the first write.  The
\* submission is read first; questions and options are read after it, and
\* since no step of a submission call writes those tables the three reads
\* are taken in one step.
UpsertLoad(p, s, u, dto) ==
    /\ call[p].pc = "idle"
    /\ LET e == EditGuard(s, u) IN
         IF ~upsertAnswerSchema(dto) THEN Finish(p, "upsertAnswer", validationError)
         ELSE IF e # None THEN Finish(p, "upsertAnswer", e[1])
         ELSE LET v == UpsertValidation(submissions[s].formId, dto) IN
           IF v # None THEN Finish(p, "upsertAnswer", v[1])
           ELSE Goto(p, [Idle EXCEPT !.op = "upsertAnswer", !.pc = "ua_upsert",
                           !.userId = u, !.submissionId = s, !.dtos = <<dto>>,
                           !.qsnap = [q \in {dto.questionId} |-> questions[q]]])
    /\ UNCHANGED <<refreshTokens, role, tokenRole, db, now>>

\* upsertAnswer, lines 234-257: the answer row.
UpsertWriteAnswer(p) ==
    /\ call[p].pc = "ua_upsert"
    /\ LET dto == call[p].dtos[1]
           question == call[p].qsnap[dto.questionId] IN
         answers' = UpsertAnswerRow(answers, call[p].submissionId, dto.questionId,
                                    StoredText(question, dto))
    /\ Goto(p, [call[p] EXCEPT !.pc = "ua_replace"])
    /\ UNCHANGED <<refreshTokens, role, tokenRole, forms, questions, options, submissions,
                   selectedOptions, now>>

\* The rows of the answer (s, q) that a deleteMany({answerId}) meets.
RowsOfAnswer(rows, s, q) ==
    {r \in rows : r.submissionId = s /\ r.questionId = q}

\* A delete that other connections see before the commit.
VisibleAfterDelete(rows, deleted) == rows \ deleted

\* What other connections read of the table while a transaction that has
\* deleted the rows in deleted is still open: the deletes are not committed.
VisibleDuringTransaction(rows, deleted) == rows

\* upsertAnswer, lines 259-279.  For a text question the plain deleteMany
\* of line 278, and the call returns (the read-back of 281-302 changes
\* nothing and its payload is not part of the response modelled here).  For
\* a choice question the first statement of the interactive transaction,
\* tx.deleteMany: under the default isolation of the database (read
\* committed) it removes the rows committed when it runs, and nothing of it
\* is visible to other connections before the commit.
UpsertReplaceSelected(p) ==
    /\ call[p].pc = "ua_replace"
    /\ LET dto == call[p].dtos[1]
           question == call[p].qsnap[dto.questionId]
           s == call[p].submissionId
           mine == RowsOfAnswer(selectedOptions, s, dto.questionId) IN
         IF question.type = "text"
           THEN /\ selectedOptions' = ReplaceSelection(selectedOptions, s,
                                          dto.questionId, <<>>)
                /\ Finish(p, "upsertAnswer", Ok(s))
           ELSE /\ selectedOptions' = VisibleDuringTransaction(selectedOptions, mine)
                /\ Goto(p, [call[p] EXCEPT !.pc = "ua_commit", !.deleted = mine])
    /\ UNCHANGED <<refreshTokens, role, tokenRole, forms, questions, options, submissions,
                   answers, now>>

\* A commit that makes the created rows visible and not the delete.
CommitWithoutDelete(rows, deleted, s, q, selected) ==
    rows \cup {[submissionId |-> s, questionId |-> q, optionId |-> o] :
                  o \in Range(selected)}

\* The table after the commit of a transaction that deleted the rows in
\* deleted and created one row per option of selected (skipDuplicates).
CommitSelection(rows, deleted, s, q, selected) ==
    (rows \ deleted)
        \cup {[submissionId |-> s, questionId |-> q, optionId |-> o] :
                o \in Range(selected)}

\* upsertAnswer, lines 268-277 and the end of the transaction: tx.createMany
\* and the commit, which make the delete and the new rows visible together.
\* A row this transaction deleted is gone for every other open transaction
\* that met it (its deleteMany waited on the row lock and then skips the
\* row; a row created here with the same option is a new row).
UpsertCommitSelected(p) ==
    /\ call[p].pc = "ua_commit"
    /\ LET dto == call[p].dtos[1]
           question == call[p].qsnap[dto.questionId] IN
         selectedOptions' = CommitSelection(selectedOptions, call[p].deleted,
                                call[p].submissionId, dto.questionId,
                                NewSelection(question, dto))
    /\ call' = [q \in Procs |->
                  IF q = p THEN Idle
                  ELSE [call[q] EXCEPT !.deleted = @ \ call[p].deleted]]
    /\ resp' = [Ok(call[p].submissionId) EXCEPT !.op = "upsertAnswer"]
    /\ UNCHANGED <<refreshTokens, role, tokenRole, forms, questions, options, submissions,
                   answers, now>>

\* ----------------------------------------------------------------- submit

IsSpace(c) == c = " "

\* The text as stored, nothing removed.
TrimNothing(cs) == cs

\* String.prototype.trim on a sequence of characters.
RECURSIVE Trim(_)
Trim(cs) ==
    IF cs = <<>> THEN <<>>
    ELSE IF IsSpace(Head(cs)) THEN Trim(Tail(cs))
    ELSE IF IsSpace(cs[Len(cs)]) THEN Trim(SubSeq(cs, 1, Len(cs) - 1))
    ELSE cs

\* answersByQuestion.get(q.id) over the rows read for submission s.
AnswerRows(rows, s, q) == {a \in rows : a.submissionId = s /\ a.questionId = q}

\* ans?.selectedOptions?.length ?? 0
SelectedCount(sel, s, q) ==
    Cardinality({r \in sel : r.submissionId = s /\ r.questionId = q})

\* The checks of one question without the two checks made of radio questions
\* only (lines 375-382).
QuestionViolationWithoutRadio(question, ans, count) ==
    IF question.type = "text"
      THEN LET hasText == \E a \in ans :
                              a.textValue # None /\ Len(Trim(a.textValue[1])) > 0
           IN IF question.isRequired /\ ~hasText
                THEN Some("Missing required text answer")
                ELSE None
      ELSE IF /\ question.isRequired
              /\ (IF question.minChoices = None THEN 1 ELSE question.minChoices[1]) > count
             THEN Some("Not enough selected options")
           ELSE IF question.minChoices # None /\ count < question.minChoices[1]
             THEN Some("Not enough selected options")
           ELSE IF question.maxChoices # None /\ count > question.maxChoices[1]
             THEN Some("Too many selected options")
           ELSE None

\* The checks of one question without the check of minChoices that does not
\* depend on isRequired (lines 368-370).
QuestionViolationRequiredOnly(question, ans, count) ==
    IF question.type = "text"
      THEN LET hasText == \E a \in ans :
                              a.textValue # None /\ Len(Trim(a.textValue[1])) > 0
           IN IF question.isRequired /\ ~hasText
                THEN Some("Missing required text answer")
                ELSE None
      ELSE IF /\ question.isRequired
              /\ (IF question.minChoices = None THEN 1 ELSE question.minChoices[1]) > count
             THEN Some("Not enough selected options")
           ELSE IF question.maxChoices # None /\ count > question.maxChoices[1]
             THEN Some("Too many selected options")
           ELSE IF question.type = "radio" /\ question.isRequired /\ count # 1
             THEN Some("Radio question must have exactly one selected option")
           ELSE IF question.type = "radio" /\ ~question.isRequired /\ count > 1
             THEN Some("Radio question must have at most one selected option")
           ELSE None

\* submit, lines 349-383: the violation found for one question, or None.
\* question is the row, ans the set holding the answer row if there is one,
\* count the number of selected options.
QuestionViolation(question, ans, count) ==
    IF question.type = "text"
      THEN LET hasText == \E a \in ans :
                              a.textValue # None /\ Len(Trim(a.textValue[1])) > 0
           IN IF question.isRequired /\ ~hasText
                THEN Some("Missing required text answer")
                ELSE None
      ELSE IF /\ question.isRequired
              /\ (IF question.minChoices = None THEN 1 ELSE question.minChoices[1]) > count
             THEN Some("Not enough selected options")
           ELSE IF question.minChoices # None /\ count < question.minChoices[1]
             THEN Some("Not enough selected options")
           ELSE IF question.maxChoices # None /\ count > question.maxChoices[1]
             THEN Some("Too many selected options")
           ELSE IF question.type = "radio" /\ question.isRequired /\ count # 1
             THEN Some("Radio question must have exactly one selected option")
           ELSE IF question.type = "radio" /\ ~question.isRequired /\ count > 1
             THEN Some("Radio question must have at most one selected option")
           ELSE None

\* submission.form.questions
QuestionsOfForm(f) == {q \in DOMAIN questions : questions[q].formId = f}

ViolationAt(s, q) ==
    QuestionViolation(questions[q], AnswerRows(answers, s, q),
                      SelectedCount(selectedOptions, s, q))

\* The questions of the submission's form that fail the completeness check
\* on the stored answers.
Violating(s) ==
    {q \in QuestionsOfForm(submissions[s].formId) : ViolationAt(s, q) # None}

\* The read and checks of submit without the check of the status.
SubmitReadWithoutStatus(p, s, u, op) ==
    IF ~SubmissionExists(s)
      THEN Finish(p, op, notFound("Submission not found"))
    ELSE IF submissions[s].respondentUserId # u
      THEN Finish(p, op, forbidden("You can only submit your own submission"))
    ELSE IF Violating(s) # {}
      THEN \E q \in Violating(s) : Finish(p, op, badRequestAt(ViolationAt(s, q)[1], q))
    ELSE Goto(p, [Idle EXCEPT !.op = op, !.pc = "submit_update",
                              !.userId = u, !.submissionId = s])

\* submit, lines 307-384: one read of the submission, its form's questions
\* and its answers, then the checks.  The query gives the questions no
\* order, so the loop may meet any violating question first.
SubmitRead(p, s, u, op) ==
    IF ~SubmissionExists(s)
      THEN Finish(p, op, notFound("Submission not found"))
    ELSE IF submissions[s].status # "in_progress"
      THEN Finish(p, op, forbidden("Submission is not in progress"))
    ELSE IF submissions[s].respondentUserId # u
      THEN Finish(p, op, forbidden("You can only submit your own submission"))
    ELSE IF Violating(s) # {}
      THEN \E q \in Violating(s) : Finish(p, op, badRequestAt(ViolationAt(s, q)[1], q))
    ELSE Goto(p, [Idle EXCEPT !.op = op, !.pc = "submit_update",
                              !.userId = u, !.submissionId = s])

SubmitLoad(p, s, u) ==
    /\ call[p].pc = "idle"
    /\ SubmitRead(p, s, u, "submit")
    /\ UNCHANGED <<refreshTokens, role, tokenRole, db, now>>

\* The update on a table that has no unique index.
UpdateWithoutUniqueIndex(s) == FALSE

\* prisma.formSubmission.update under the unique index.
UpdateStatusRejected(s) ==
    UniqueKeyTaken(submissions[s].formId, submissions[s].respondentUserId,
                   "submitted", s)

\* new Date(): the wall clock never runs backwards; `now` is the latest
\* time read so far and a read returns that time or a later one.
ClockReads == now..MaxClock

\* submit, lines 386-404: the status transition, submittedAt = new Date().
SubmitUpdate(p) ==
    /\ call[p].pc = "submit_update"
    /\ LET s == call[p].submissionId IN
         IF UpdateStatusRejected(s)
           THEN /\ Finish(p, call[p].op, uniqueViolation)
                /\ UNCHANGED <<submissions, now>>
           ELSE \E t \in ClockReads :
                /\ now' = t
                /\ submissions' = [submissions EXCEPT
                                     ![s].status = "submitted",
                                     ![s].submittedAt = Some(t)]
                /\ Finish(p, call[p].op, Ok(s))
    /\ UNCHANGED <<refreshTokens, role, tokenRole, forms, questions, options, answers,
                   selectedOptions>>

\* ------------------------------------------------- upsertAnswersAndSubmit

\* dtos.flatMap((d) => d.selectedOptionIds ?? [])
RECURSIVE FlatSelected(_)
FlatSelected(dtos) ==
    IF dtos = <<>> THEN <<>>
    ELSE SelectedOrEmpty(Head(dtos)) \o FlatSelected(Tail(dtos))

\* Array.from(new Set(dtos.map((d) => d.questionId)))
BatchQuestionIds(dtos) == Dedupe([i \in 1..Len(dtos) |-> dtos[i].questionId])

\* prisma.question.findMany({where: {id: {in: questionIds}}})
QuestionsFound(ids) == {q \in Range(ids) : q \in DOMAIN questions}

\* prisma.questionOption.findMany({where: {id: {in: optionIds}}})
OptionsFound(ids) == {o \in Range(ids) : o \in DOMAIN options}

\* The pre-check without the comparison of the questions' form.
BatchValidationWithoutForm(f, dtos) ==
    LET questionIds == BatchQuestionIds(dtos)
        found == QuestionsFound(questionIds)
        optionIds == Dedupe(FlatSelected(dtos)) IN
    IF Cardinality(found) # Len(questionIds)
      THEN Some(badRequest("One or more questions not found"))
    ELSE IF /\ Len(optionIds) > 0
            /\ Cardinality(OptionsFound(optionIds)) # Len(optionIds)
      THEN Some(badRequest("One or more selected options are invalid"))
    ELSE None

\* upsertAnswersAndSubmit, lines 121-138, for a submission of form f: the
\* pre-check of the batch's questions and options; the error, or None.
BatchValidation(f, dtos) ==
    LET questionIds == BatchQuestionIds(dtos)
        found == QuestionsFound(questionIds)
        optionIds == Dedupe(FlatSelected(dtos)) IN
    IF Cardinality(found) # Len(questionIds)
      THEN Some(badRequest("One or more questions not found"))
    ELSE IF \E q \in found : questions[q].formId # f
      THEN Some(badRequest("Question does not belong to this form"))
    ELSE IF /\ Len(optionIds) > 0
            /\ Cardinality(OptionsFound(optionIds)) # Len(optionIds)
      THEN Some(badRequest("One or more selected options are invalid"))
    ELSE None

\* The validate middleware of the route, then upsertAnswersAndSubmit, lines
\* 116-138: everything before the transaction, the reads taken in one step
\* as in UpsertLoad.
BatchLoad(p, s, u, dtos) ==
    /\ call[p].pc = "idle"
    /\ LET e == EditGuard(s, u) IN
         IF ~upsertAnswersSchema(dtos) THEN Finish(p, "batch", validationError)
         ELSE IF e # None THEN Finish(p, "batch", e[1])
         ELSE LET v == BatchValidation(submissions[s].formId, dtos) IN
           IF v # None THEN Finish(p, "batch", v[1])
           ELSE Goto(p, [Idle EXCEPT !.op = "batch", !.pc = "batch_tx",
                           !.userId = u, !.submissionId = s, !.dtos = dtos,
                           !.qsnap = [q \in QuestionsFound(BatchQuestionIds(dtos))
                                        |-> questions[q]]])
    /\ UNCHANGED <<refreshTokens, role, tokenRole, db, now>>

\* The body of the transaction, lines 141-172, over the rows ans and sel:
\* the first shape error, or the rows after every DTO's writes.
RECURSIVE BatchWrites(_, _, _, _, _)
BatchWrites(dtos, qsnap, s, ans, sel) ==
    IF dtos = <<>> THEN [error |-> None, answers |-> ans, selectedOptions |-> sel]
    ELSE LET dto == Head(dtos)
             question == qsnap[dto.questionId]
             e == ShapeError(question, dto)
         IN IF e # None
              THEN [error |-> e, answers |-> ans, selectedOptions |-> sel]
              ELSE BatchWrites(Tail(dtos), qsnap, s,
                       UpsertAnswerRow(ans, s, dto.questionId, StoredText(question, dto)),
                       ReplaceSelection(sel, s, dto.questionId, NewSelection(question, dto)))

\* upsertAnswersAndSubmit, lines 140-173: prisma.$transaction; a throw rolls
\* every write of the transaction back.  Then this.submit (line 175).
BatchTransaction(p) ==
    /\ call[p].pc = "batch_tx"
    /\ LET r == BatchWrites(call[p].dtos, call[p].qsnap, call[p].submissionId,
                            answers, selectedOptions) IN
         IF r.error # None
           THEN /\ Finish(p, "batch", r.error[1])
                /\ UNCHANGED <<answers, selectedOptions>>
           ELSE /\ answers' = r.answers
                /\ selectedOptions' = r.selectedOptions
                /\ Goto(p, [call[p] EXCEPT !.pc = "batch_submit"])
    /\ UNCHANGED <<refreshTokens, role, tokenRole, forms, questions, options, submissions, now>>

\* upsertAnswersAndSubmit, line 175: this.submit(submissionId, userId).
BatchSubmitLoad(p) ==
    /\ call[p].pc = "batch_submit"
    /\ SubmitRead(p, call[p].submissionId, call[p].userId, "batch")
    /\ UNCHANGED <<refreshTokens, role, tokenRole, db, now>>

\* ------------------------------------------------------------- listByForm

\* A check that lets every authenticated caller through.
ListAllowedToAnyone(f, u, r) == TRUE

\* listByForm, line 86: role !== "admin" && form.ownerUserId !== userId
\* throws; r is the role of the caller's access token.
ListAllowed(f, u, r) == r = "admin" \/ forms[f].ownerUserId = u

\* listByForm, lines 79-88: the form and the check of the caller.
ListLoadForm(p, f, u) ==
    /\ call[p].pc = "idle"
    /\ IF ~FormExists(f)
         THEN Finish(p, "listByForm", notFound("Form not found"))
       ELSE IF ~ListAllowed(f, u, tokenRole[u])
         THEN Finish(p, "listByForm",
                     forbidden("You are not allowed to view submissions for this form"))
       ELSE Goto(p, [Idle EXCEPT !.op = "listByForm", !.pc = "list_find",
                                 !.formId = f, !.userId = u])
    /\ UNCHANGED <<refreshTokens, role, tokenRole, db, now>>

\* listByForm, lines 90-112: findMany({where: {formId}}).
ListFindMany(p) ==
    /\ call[p].pc = "list_find"
    /\ Finish(p, "listByForm",
              [Ok(0) EXCEPT !.list = {s \in 1..Len(submissions) :
                                         submissions[s].formId = call[p].formId}])
    /\ UNCHANGED <<refreshTokens, role, tokenRole, db, now>>

\* ------------------------------------------------- users, tokens and forms

\* requireRole("admin") on PATCH /users/:id, then UsersService.update with a
\* role in the body.
UpdateUser(actor, u, r) ==
    /\ tokenRole[actor] = "admin"
    /\ role' = [role EXCEPT ![u] = r]
    /\ resp' = NoResp
    /\ UNCHANGED <<refreshTokens, tokenRole, db, now, call>>

\* AuthService.login / refresh: signAccessToken({sub, role: user.role}).
Login(u) ==
    /\ tokenRole' = [tokenRole EXCEPT ![u] = role[u]]
    /\ resp' = NoResp
    /\ UNCHANGED <<refreshTokens, role, db, now, call>>

canManageForm(r) == r = "admin" \/ r = "creator"

\* assertCanAccessForm for a caller that passed canManageForm.
CanAccessForm(f, u, r) ==
    /\ FormExists(f)
    /\ r = "admin" \/ forms[f].ownerUserId = u

\* FormsService.create: a new form is unpublished and owned by its creator.
CreateForm(u) ==
    /\ canManageForm(tokenRole[u])
    /\ Len(forms) < MaxForms
    /\ forms' = Append(forms, [ownerUserId |-> u, isPublished |-> FALSE])
    /\ resp' = NoResp
    /\ UNCHANGED <<refreshTokens, role, tokenRole, questions, options, submissions, answers,
                   selectedOptions, now, call>>

\* FormsService.publish.
PublishForm(f, u, isPublished) ==
    /\ canManageForm(tokenRole[u])
    /\ CanAccessForm(f, u, tokenRole[u])
    /\ forms' = [forms EXCEPT ![f].isPublished = isPublished]
    /\ resp' = NoResp
    /\ UNCHANGED <<refreshTokens, role, tokenRole, questions, options, submissions, answers,
                   selectedOptions, now, call>>

\* dto.x ?? current, for an optional field held as None / Some(x).
OrElse(opt, current) == IF opt = None THEN current ELSE opt[1]

\* updateQuestionSchema: the refinements of the body (prompt and
\* optionsToAdd are left out of the bodies modelled).
updateQuestionSchema(dto) ==
    /\ ~(dto.type = Some("text") /\ (dto.minChoices # None \/ dto.maxChoices # None))
    /\ ~(/\ dto.minChoices # None
         /\ dto.maxChoices # None
         /\ dto.minChoices[1] > dto.maxChoices[1])
    /\ dto.type = Some("radio") =>
          /\ dto.minChoices \in {None, Some(1)}
          /\ dto.maxChoices \in {None, Some(1)}

\* Object.keys(dto).length === 0
EmptyUpdate(dto) ==
    /\ dto.type = None
    /\ dto.isRequired = None
    /\ dto.orderIndex = None
    /\ dto.minChoices = None
    /\ dto.maxChoices = None

\* normalizeQuestionUpdate, lines 5-20: the error thrown, or None.
NormalizeError(currentType, dto) ==
    LET nextType == OrElse(dto.type, currentType) IN
    IF nextType = "radio" /\ dto.minChoices \notin {None, Some(1)}
      THEN Some(badRequest("radio questions must have minChoices = 1"))
    ELSE IF nextType = "radio" /\ dto.maxChoices \notin {None, Some(1)}
      THEN Some(badRequest("radio questions must have maxChoices = 1"))
    ELSE IF nextType = "text" /\ (dto.minChoices # None \/ dto.maxChoices # None)
      THEN Some(badRequest("minChoices/maxChoices are not allowed for text questions"))
    ELSE None

\* normalizeQuestionUpdate, lines 22-37, applied by tx.question.update: the
\* row after the update.
normalizeQuestionUpdate(row, dto) ==
    LET isText == OrElse(dto.type, row.type) = "text" IN
    [row EXCEPT
       !.type = OrElse(dto.type, row.type),
       !.isRequired = OrElse(dto.isRequired, row.isRequired),
       !.orderIndex = OrElse(dto.orderIndex, row.orderIndex),
       !.minChoices = IF isText THEN None
                      ELSE IF dto.minChoices # None THEN dto.minChoices
                      ELSE row.minChoices,
       !.maxChoices = IF isText THEN None
                      ELSE IF dto.maxChoices # None THEN dto.maxChoices
                      ELSE row.maxChoices]

\* tx.questionOption.deleteMany({where: {questionId}}): the options left.
OptionsWithout(q) ==
    [o \in {x \in DOMAIN options : options[x] # q} |-> options[o]]

\* FormsService.updateQuestion by user u.  The handler reads the question and
\* its form and then writes in one transaction; the rows it reads are
\* written by form-authoring calls only, of which one runs at a time here,
\* so the handler is one step.  A switch to text deletes the question's
\* options, and with them (ON DELETE CASCADE) the selections that name them.
\* The response of a forms route is not recorded.
UpdateQuestion(u, q, dto) ==
    /\ updateQuestionSchema(dto)
    /\ canManageForm(tokenRole[u])
    /\ ~EmptyUpdate(dto)
    /\ q \in DOMAIN questions
    /\ CanAccessForm(questions[q].formId, u, tokenRole[u])
    /\ NormalizeError(questions[q].type, dto) = None
    /\ LET row == normalizeQuestionUpdate(questions[q], dto) IN
         /\ questions' = [questions EXCEPT ![q] = row]
         /\ IF row.type = "text"
              THEN /\ options' = OptionsWithout(q)
                   /\ selectedOptions' =
                         {r \in selectedOptions :
                             r.optionId \in DOMAIN OptionsWithout(q)}
              ELSE UNCHANGED <<options, selectedOptions>>
    /\ resp' = NoResp
    /\ UNCHANGED <<refreshTokens, role, tokenRole, forms, submissions, answers, now, call>>

\* addQuestionSchema: the refinements of the body.
addQuestionSchema(dto) ==
    IF dto.type = "text"
      THEN dto.minChoices = None /\ dto.maxChoices = None
      ELSE /\ ~(/\ dto.minChoices # None
                /\ dto.maxChoices # None
                /\ dto.minChoices[1] > dto.maxChoices[1])
           /\ dto.type = "radio" =>
                 /\ dto.minChoices \in {None, Some(1)}
                 /\ dto.maxChoices \in {None, Some(1)}

\* FormsService.addQuestion by user u on form f: the checks, then the
\* transaction that creates the question q (an id not yet stored).  A body
\* the schema rejects, or a caller the checks refuse, changes nothing.
AddQuestion(u, f, q, dto) ==
    /\ addQuestionSchema(dto)
    /\ canManageForm(tokenRole[u])
    /\ CanAccessForm(f, u, tokenRole[u])
    /\ q \notin DOMAIN questions
    /\ questions' =
          [x \in DOMAIN questions \cup {q} |->
              IF x = q
                THEN [formId |-> f,
                      type |-> dto.type,
                      isRequired |-> dto.isRequired,
                      orderIndex |-> dto.orderIndex,
                      minChoices |-> IF dto.type = "text" THEN None ELSE dto.minChoices,
                      maxChoices |-> IF dto.type = "text" THEN None ELSE dto.maxChoices]
                ELSE questions[x]]
    /\ resp' = NoResp
    /\ UNCHANGED <<refreshTokens, role, tokenRole, forms, options, submissions, answers,
                   selectedOptions, now, call>>

\* updateQuestion, lines 381-396, in request slot p: the checks on the body
\* and the caller, the read of the question (id, formId, type) and
\* normalizeQuestionUpdate on the type read.  A refused call changes nothing.
UpdateQuestionLoad(p, u, q, dto) ==
    /\ call[p].pc = "idle"
    /\ updateQuestionSchema(dto)
    /\ canManageForm(tokenRole[u])
    /\ ~EmptyUpdate(dto)
    /\ q \in DOMAIN questions
    /\ CanAccessForm(questions[q].formId, u, tokenRole[u])
    /\ NormalizeError(questions[q].type, dto) = None
    /\ Goto(p, [Idle EXCEPT !.op = "updateQuestion", !.pc = "uq_write",
                            !.userId = u, !.dtos = <<dto>>,
                            !.qsnap = [x \in {q} |->
                                         [formId |-> questions[q].formId,
                                          type |-> questions[q].type]]])
    /\ UNCHANGED <<refreshTokens, role, tokenRole, db, now>>

\* The data of normalizeQuestionUpdate (lines 22-37), computed from the type
\* read earlier, applied by tx.question.update to the row now stored: a
\* field that data does not hold keeps its stored value.
ApplyQuestionUpdate(row, currentType, dto) ==
    LET isText == OrElse(dto.type, currentType) = "text" IN
    [row EXCEPT
       !.type = OrElse(dto.type, row.type),
       !.isRequired = OrElse(dto.isRequired, row.isRequired),
       !.orderIndex = OrElse(dto.orderIndex, row.orderIndex),
       !.minChoices = IF isText THEN None
                      ELSE IF dto.minChoices # None THEN dto.minChoices
                      ELSE row.minChoices,
       !.maxChoices = IF isText THEN None
                      ELSE IF dto.maxChoices # None THEN dto.maxChoices
                      ELSE row.maxChoices]

\* updateQuestion, lines 399-446: the transaction.  shouldDeleteOptions is
\* decided on the type read earlier.
UpdateQuestionWrite(p) ==
    /\ call[p].pc = "uq_write"
    /\ LET q == CHOOSE x \in DOMAIN call[p].qsnap : TRUE
           dto == call[p].dtos[1]
           currentType == call[p].qsnap[q].type
           isText == OrElse(dto.type, currentType) = "text" IN
         /\ questions' = [questions EXCEPT
                             ![q] = ApplyQuestionUpdate(@, currentType, dto)]
         /\ IF isText
              THEN /\ options' = OptionsWithout(q)
                   /\ selectedOptions' =
                         {r \in selectedOptions :
                             r.optionId \in DOMAIN OptionsWithout(q)}
              ELSE UNCHANGED <<options, selectedOptions>>
    /\ call' = [call EXCEPT ![p] = Idle]
    /\ resp' = NoResp
    /\ UNCHANGED <<refreshTokens, role, tokenRole, forms, submissions, answers, now>>

\* addOption, lines 343-353, in request slot p: the read of the question,
\* the refusal for a text question, and the check of the caller.
AddOptionLoad(p, u, q) ==
    /\ call[p].pc = "idle"
    /\ canManageForm(tokenRole[u])
    /\ q \in DOMAIN questions
    /\ questions[q].type # "text"
    /\ CanAccessForm(questions[q].formId, u, tokenRole[u])
    /\ Goto(p, [Idle EXCEPT !.op = "addOption", !.pc = "ao_create",
                            !.userId = u,
                            !.qsnap = [x \in {q} |->
                                         [formId |-> questions[q].formId,
                                          type |-> questions[q].type]]])
    /\ UNCHANGED <<refreshTokens, role, tokenRole, db, now>>

\* addOption, lines 355-378: prisma.questionOption.create of the option o
\* (an id not yet stored) for the question read earlier.
AddOptionCreate(p, o) ==
    /\ call[p].pc = "ao_create"
    /\ o \notin DOMAIN options
    /\ LET q == CHOOSE x \in DOMAIN call[p].qsnap : TRUE IN
         options' = [x \in DOMAIN options \cup {o} |->
                        IF x = o THEN q ELSE options[x]]
    /\ call' = [call EXCEPT ![p] = Idle]
    /\ resp' = NoResp
    /\ UNCHANGED <<refreshTokens, role, tokenRole, forms, questions, submissions, answers,
                   selectedOptions, now>>

\* ---------------------------------------------------------- refresh tokens

\* Raw refresh tokens: generateRefreshToken draws one that is not stored.
RawTokens == {"t1", "t2", "t3"}

\* validateStoredRefreshToken, lines 196-210, at time t: the error, or None.
StoredTokenError(raw, t) ==
    IF raw \notin DOMAIN refreshTokens
      THEN Some(unauthorized("Invalid refresh token"))
    ELSE IF refreshTokens[raw].revokedAt # None
      THEN Some(unauthorized("Refresh token revoked"))
    ELSE IF refreshTokens[raw].expiresAt <= t
      THEN Some(unauthorized("Refresh token expired"))
    ELSE None

\* AuthService.refresh, lines 316-319: the lookup of the token and its
\* checks, Date.now() read for the expiry.
RefreshValidate(p, raw) ==
    /\ call[p].pc = "idle"
    /\ \E t \in ClockReads :
          /\ now' = t
          /\ IF StoredTokenError(raw, t) # None
               THEN Finish(p, "refresh", StoredTokenError(raw, t)[1])
               ELSE Goto(p, [Idle EXCEPT !.op = "refresh", !.pc = "rf_revoke",
                                         !.token = raw,
                                         !.userId = refreshTokens[raw].userId])
    /\ UNCHANGED <<refreshTokens, role, tokenRole, db>>

\* AuthService.refresh, lines 321-324: update({where: {id}, data:
\* {revokedAt: new Date()}}), whatever revokedAt holds by now.
RefreshRevoke(p) ==
    /\ call[p].pc = "rf_revoke"
    /\ \E t \in ClockReads :
          /\ now' = t
          /\ refreshTokens' = [refreshTokens EXCEPT
                                 ![call[p].token].revokedAt = Some(t)]
    /\ Goto(p, [call[p] EXCEPT !.pc = "rf_persist"])
    /\ UNCHANGED <<role, tokenRole, db>>

\* AuthService.refresh, lines 326-334: persistRefreshToken of a new raw token
\* that expires after the times modelled, and the response.
RefreshPersist(p, raw) ==
    /\ call[p].pc = "rf_persist"
    /\ raw \notin DOMAIN refreshTokens
    /\ \E t \in ClockReads :
          /\ now' = t
          /\ refreshTokens' =
                [x \in DOMAIN refreshTokens \cup {raw} |->
                    IF x = raw
                      THEN [userId |-> call[p].userId, revokedAt |-> None,
                            expiresAt |-> t + MaxClock + 1]
                      ELSE refreshTokens[x]]
    /\ Finish(p, "refresh", [Ok(0) EXCEPT !.token = raw])
    /\ UNCHANGED <<role, tokenRole, db>>

\* AuthService.logout, lines 337-343: the lookup; nothing to do for a token
\* that is not stored or is revoked.
LogoutFind(p, raw) ==
    /\ call[p].pc = "idle"
    /\ IF raw \notin DOMAIN refreshTokens \/ refreshTokens[raw].revokedAt # None
         THEN Finish(p, "logout", Ok(0))
         ELSE Goto(p, [Idle EXCEPT !.op = "logout", !.pc = "lo_revoke",
                                   !.token = raw])
    /\ UNCHANGED <<refreshTokens, role, tokenRole, db, now>>

\* AuthService.logout, lines 345-350: the update of revokedAt.
LogoutRevoke(p) ==
    /\ call[p].pc = "lo_revoke"
    /\ \E t \in ClockReads :
          /\ now' = t
          /\ refreshTokens' = [refreshTokens EXCEPT
                                 ![call[p].token].revokedAt = Some(t)]
    /\ Finish(p, "logout", Ok(0))
    /\ UNCHANGED <<role, tokenRole, db>>

\* ---------------------------------------------------------- specification

InitQuestions ==
    [q \in {"q1"} |-> [formId |-> 1, type |-> "checkbox", isRequired |-> TRUE,
                       orderIndex |-> 0, minChoices |-> None, maxChoices |-> None]]
InitOptions == [o \in {"o1"} |-> "q1"]

Dto(q, text, selected) ==
    [questionId |-> q, textValue |-> text, selectedOptionIds |-> selected]

\* Request bodies of the lifecycle specification.
LifecycleDtos ==
    {Dto("q1", None, Some(<<"o1">>)), Dto("q1", None, Some(<<>>))}

LifecycleBatches == {<<Dto("q1", None, Some(<<"o1">>))>>}

\* One published form owned by the creator u1, with its questions.
Init ==
    /\ refreshTokens = <<>>
    /\ role = [u \in Users |-> IF u = "u1" THEN "creator" ELSE "common"]
    /\ tokenRole = role
    /\ forms = <<[ownerUserId |-> "u1", isPublished |-> TRUE]>>
    /\ questions = InitQuestions
    /\ options = InitOptions
    /\ submissions = <<>>
    /\ answers = {}
    /\ selectedOptions = {}
    /\ now = 0
    /\ call = [p \in Procs |-> Idle]
    /\ resp = NoResp

Next ==
    \/ \E p \in Procs, f \in FormIds, u \in Users : StartLoadForm(p, f, u)
    \/ \E p \in Procs : StartFindExisting(p)
    \/ \E p \in Procs : StartCreate(p)
    \/ \E p \in Procs, s \in RequestedIds, u \in Users, dto \in LifecycleDtos :
          UpsertLoad(p, s, u, dto)
    \/ \E p \in Procs : UpsertWriteAnswer(p)
    \/ \E p \in Procs : UpsertReplaceSelected(p)
    \/ \E p \in Procs : UpsertCommitSelected(p)
    \/ \E p \in Procs, s \in RequestedIds, u \in Users : SubmitLoad(p, s, u)
    \/ \E p \in Procs : SubmitUpdate(p)
    \/ \E p \in Procs, s \in RequestedIds, u \in Users, dtos \in LifecycleBatches :
          BatchLoad(p, s, u, dtos)
    \/ \E p \in Procs : BatchTransaction(p)
    \/ \E p \in Procs : BatchSubmitLoad(p)

Spec == Init /\ [][Next]_vars

\* Who may start: no form yet, a creator and an administrator; roles change,
\* tokens are issued, forms are created and published, submissions started.
InitAuth ==
    /\ refreshTokens = <<>>
    /\ role = [u \in Users |-> IF u = "u1" THEN "creator" ELSE "admin"]
    /\ tokenRole = role
    /\ forms = <<>>
    /\ questions = <<>>
    /\ options = <<>>
    /\ submissions = <<>>
    /\ answers = {}
    /\ selectedOptions = {}
    /\ now = 0
    /\ call = [p \in Procs |-> Idle]
    /\ resp = NoResp

NextAuth ==
    \/ \E actor \in Users, u \in Users, r \in UserRole : UpdateUser(actor, u, r)
    \/ \E u \in Users : Login(u)
    \/ \E u \in Users : CreateForm(u)
    \/ \E f \in FormIds, u \in Users, b \in BOOLEAN : PublishForm(f, u, b)
    \/ \E p \in Procs, f \in FormIds, u \in Users : StartLoadForm(p, f, u)
    \/ \E p \in Procs : StartFindExisting(p)
    \/ \E p \in Procs : StartCreate(p)

SpecAuth == InitAuth /\ [][NextAuth]_vars

\* ------------------------------------------- specification: completeness

\* A form with a checkbox question q1 (options o1, o2), a required text
\* question q2 placed before it, and a radio question q3 (options o3, o4),
\* published by its owner u1; the respondent u2 has started submission 1.
AnswersQuestions ==
    [q \in {"q1", "q2", "q3"} |->
        [formId |-> 1,
         type |-> CASE q = "q1" -> "checkbox" [] q = "q2" -> "text" [] OTHER -> "radio",
         isRequired |-> (q = "q2"),
         orderIndex |-> CASE q = "q1" -> 1 [] q = "q2" -> 0 [] OTHER -> 2,
         minChoices |-> None,
         maxChoices |-> None]]

AnswersOptions ==
    [o \in {"o1", "o2", "o3", "o4"} |-> IF o \in {"o1", "o2"} THEN "q1" ELSE "q3"]

InitAnswers ==
    /\ refreshTokens = <<>>
    /\ role = [u \in Users |-> IF u = "u1" THEN "creator" ELSE "common"]
    /\ tokenRole = role
    /\ forms = <<[ownerUserId |-> "u1", isPublished |-> TRUE]>>
    /\ questions = AnswersQuestions
    /\ options = AnswersOptions
    /\ submissions = <<[formId |-> 1, respondentUserId |-> "u2",
                        status |-> "in_progress", submittedAt |-> None]>>
    /\ answers = {}
    /\ selectedOptions = {}
    /\ now = 0
    /\ call = [p \in Procs |-> Idle]
    /\ resp = NoResp

\* Text values of requests: blank, all whitespace, and with content.
Chars == {" ", "a"}
Texts == UNION {[1..n -> Chars] : n \in 0..MaxTextLen}

\* Bodies of PATCH /forms/questions/:id: one field each.
UpdateDto(type, isRequired, minChoices, maxChoices) ==
    [type |-> type, isRequired |-> isRequired, orderIndex |-> None,
     minChoices |-> minChoices, maxChoices |-> maxChoices]

QuestionUpdates ==
    {UpdateDto(Some(ty), None, None, None) : ty \in QuestionType}
        \cup {UpdateDto(None, Some(b), None, None) : b \in BOOLEAN}
        \cup {UpdateDto(None, None, Some(n), None) : n \in 0..MaxChoices}
        \cup {UpdateDto(None, None, None, Some(n)) : n \in 0..MaxChoices}

\* Answers the respondent sends while filling the form in.
CompletenessDtos ==
    {Dto("q1", None, Some(sel)) : sel \in {<<>>, <<"o1">>, <<"o1", "o2">>}}
        \cup {Dto("q2", Some(<<"a">>), None)}

\* The respondent answers and submits, one request at a time, while the
\* owner edits question q1.
NextCompleteness ==
    \/ \E dto \in CompletenessDtos : UpsertLoad("p1", 1, "u2", dto)
    \/ UpsertWriteAnswer("p1")
    \/ UpsertReplaceSelected("p1")
    \/ UpsertCommitSelected("p1")
    \/ SubmitLoad("p1", 1, "u2")
    \/ SubmitUpdate("p1")
    \/ \E dto \in QuestionUpdates : UpdateQuestion("u1", "q1", dto)

SpecCompleteness == InitAnswers /\ [][NextCompleteness]_vars

\* ------------------------------------------------ specification: answers

\* Bodies of PATCH /submissions/:id/answers: texts for q2; selections for
\* the checkbox question q1 (omitted, empty, repeated, of another question,
\* unknown) and for the radio question q3; and bodies whose fields do not
\* fit the question's type or the schema.
AnswerDtos ==
    {Dto("q2", Some(txt), None) : txt \in Texts}
        \cup {Dto("q1", None, sel) :
                sel \in {None, Some(<<>>), Some(<<"o1">>), Some(<<"o1", "o1", "o2">>),
                         Some(<<"o3">>), Some(<<"ox">>)}}
        \cup {Dto("q3", None, Some(sel)) :
                sel \in {<<"o3", "o3">>, <<"o3", "o4">>, <<"o4">>}}
        \cup {Dto("q2", None, None),
              Dto("q2", None, Some(<<>>)),
              Dto("q2", None, Some(<<"o1">>)),
              Dto("q2", Some(<<"a">>), Some(<<"o1">>)),
              Dto("q1", Some(<<"a">>), None),
              Dto("q3", Some(<<"a">>), None)}

\* Bodies of PATCH /submissions/:id/answers/batch.
AnswerBatches ==
    {<<Dto("q1", None, Some(<<"o3">>))>>,
     <<Dto("q3", None, Some(<<"o3", "o3">>))>>,
     <<Dto("q3", None, Some(<<"o3", "o4">>))>>,
     <<Dto("q1", None, Some(<<"o1">>)), Dto("q3", None, Some(<<"o3", "o4">>))>>,
     <<Dto("q2", Some(<<"a">>), None)>>,
     <<>>}

\* The respondent answers, saves batches and submits, one request at a time.
NextAnswers ==
    \/ \E dto \in AnswerDtos : UpsertLoad("p1", 1, "u2", dto)
    \/ UpsertWriteAnswer("p1")
    \/ UpsertReplaceSelected("p1")
    \/ UpsertCommitSelected("p1")
    \/ \E dtos \in AnswerBatches : BatchLoad("p1", 1, "u2", dtos)
    \/ BatchTransaction("p1")
    \/ BatchSubmitLoad("p1")
    \/ SubmitLoad("p1", 1, "u2")
    \/ SubmitUpdate("p1")

SpecAnswers == InitAnswers /\ [][NextAnswers]_vars

\* ------------------------------------------------- specification: listing

\* Form 1 of the creator u1 with one submission by u2, an administrator.
\* Roles change, tokens are issued, and callers list the form's submissions.
InitList ==
    /\ refreshTokens = <<>>
    /\ role = [u \in Users |-> IF u = "u1" THEN "creator" ELSE "admin"]
    /\ tokenRole = role
    /\ forms = <<[ownerUserId |-> "u1", isPublished |-> TRUE]>>
    /\ questions = InitQuestions
    /\ options = InitOptions
    /\ submissions = <<[formId |-> 1, respondentUserId |-> "u2",
                        status |-> "in_progress", submittedAt |-> None]>>
    /\ answers = {}
    /\ selectedOptions = {}
    /\ now = 0
    /\ call = [p \in Procs |-> Idle]
    /\ resp = NoResp

NextList ==
    \/ \E actor \in Users, u \in Users, r \in UserRole : UpdateUser(actor, u, r)
    \/ \E u \in Users : Login(u)
    \/ \E p \in Procs, f \in FormIds, u \in Users : ListLoadForm(p, f, u)
    \/ \E p \in Procs : ListFindMany(p)

SpecList == InitList /\ [][NextList]_vars

\* ---------------------------------------------- specification: concurrency

\* Bodies that name at least one option, or a text.
ConcurrentDtos ==
    {Dto("q1", None, Some(<<"o1">>)),
     Dto("q1", None, Some(<<"o2">>)),
     Dto("q3", None, Some(<<"o3", "o3">>)),
     Dto("q3", None, Some(<<"o4">>)),
     Dto("q2", Some(<<"a">>), None)}

\* Two request slots: the respondent answers and submits in both while the
\* owner of the form lists its submissions.
NextConcurrent ==
    \/ \E p \in Procs, dto \in ConcurrentDtos : UpsertLoad(p, 1, "u2", dto)
    \/ \E p \in Procs : UpsertWriteAnswer(p)
    \/ \E p \in Procs : UpsertReplaceSelected(p)
    \/ \E p \in Procs : UpsertCommitSelected(p)
    \/ \E p \in Procs : SubmitLoad(p, 1, "u2")
    \/ \E p \in Procs : SubmitUpdate(p)
    \/ \E p \in Procs : ListLoadForm(p, 1, "u1")
    \/ \E p \in Procs : ListFindMany(p)

SpecConcurrent == InitAnswers /\ [][NextConcurrent]_vars

\* ------------------------------------------------ specification: two forms

\* Form 1 with the checkbox question q1, form 2 with the text question q4.
ForeignQuestions ==
    [q \in {"q1", "q4"} |->
        [formId |-> IF q = "q1" THEN 1 ELSE 2,
         type |-> IF q = "q1" THEN "checkbox" ELSE "text",
         isRequired |-> FALSE,
         orderIndex |-> 0,
         minChoices |-> None,
         maxChoices |-> None]]

\* Two published forms of u1 and one in_progress submission of u2 on each.
InitForeign ==
    /\ refreshTokens = <<>>
    /\ role = [u \in Users |-> IF u = "u1" THEN "creator" ELSE "common"]
    /\ tokenRole = role
    /\ forms = [f \in 1..2 |-> [ownerUserId |-> "u1", isPublished |-> TRUE]]
    /\ questions = ForeignQuestions
    /\ options = InitOptions
    /\ submissions = [s \in 1..2 |->
                        [formId |-> s, respondentUserId |-> "u2",
                         status |-> "in_progress", submittedAt |-> None]]
    /\ answers = {}
    /\ selectedOptions = {}
    /\ now = 0
    /\ call = [p \in Procs |-> Idle]
    /\ resp = NoResp

\* Bodies naming a question of form 1, a question of form 2, and a question
\* that does not exist.
ForeignDtos ==
    {Dto("q1", None, Some(<<"o1">>)),
     Dto("q4", Some(<<"a">>), None),
     Dto("qx", Some(<<"a">>), None)}

ForeignBatches ==
    {<<Dto("q1", None, Some(<<"o1">>))>>,
     <<Dto("q4", Some(<<"a">>), None)>>,
     <<Dto("q1", None, Some(<<"o1">>)), Dto("q4", Some(<<"a">>), None)>>,
     <<Dto("q1", None, Some(<<"o1">>)), Dto("qx", Some(<<"a">>), None)>>}

\* The respondent sends every body to either submission.
NextForeign ==
    \/ \E s \in 1..2, dto \in ForeignDtos : UpsertLoad("p1", s, "u2", dto)
    \/ UpsertWriteAnswer("p1")
    \/ UpsertReplaceSelected("p1")
    \/ UpsertCommitSelected("p1")
    \/ \E s \in 1..2, dtos \in ForeignBatches : BatchLoad("p1", s, "u2", dtos)
    \/ BatchTransaction("p1")
    \/ BatchSubmitLoad("p1")
    \/ SubmitUpdate("p1")

SpecForeign == InitForeign /\ [][NextForeign]_vars

\* ------------------------------------------------ specification: authoring

\* Form 1 of the creator u1, with no question yet.
InitAuthoring ==
    /\ refreshTokens = <<>>
    /\ role = [u \in Users |-> IF u = "u1" THEN "creator" ELSE "common"]
    /\ tokenRole = role
    /\ forms = <<[ownerUserId |-> "u1", isPublished |-> FALSE]>>
    /\ questions = <<>>
    /\ options = <<>>
    /\ submissions = <<>>
    /\ answers = {}
    /\ selectedOptions = {}
    /\ now = 0
    /\ call = [p \in Procs |-> Idle]
    /\ resp = NoResp

ChoiceBounds == {None} \cup {Some(n) : n \in 0..MaxChoices}

\* Bodies of POST /forms/:id/questions (isRequired and orderIndex at their
\* defaults).
QuestionAdds ==
    {[type |-> ty, isRequired |-> FALSE, orderIndex |-> 0,
      minChoices |-> lo, maxChoices |-> hi] :
        ty \in QuestionType, lo \in ChoiceBounds, hi \in ChoiceBounds}

\* Bodies of PATCH /questions/:id that change the type or one bound.
AuthoringUpdates == {dto \in QuestionUpdates : dto.isRequired = None}

\* The owner adds the question q1, and in two request slots updates it and
\* adds options to it.
NextAuthoring ==
    \/ \E dto \in QuestionAdds : AddQuestion("u1", 1, "q1", dto)
    \/ \E p \in Procs, dto \in AuthoringUpdates : UpdateQuestionLoad(p, "u1", "q1", dto)
    \/ \E p \in Procs : UpdateQuestionWrite(p)
    \/ \E p \in Procs : AddOptionLoad(p, "u1", "q1")
    \/ \E p \in Procs, o \in {"o1", "o2"} : AddOptionCreate(p, o)

SpecAuthoring == InitAuthoring /\ [][NextAuthoring]_vars

\* -------------------------------------------------- specification: refresh

\* The user u1 holds the refresh token t1, which expires at the last time
\* modelled.
InitRefresh ==
    /\ refreshTokens = [x \in {"t1"} |->
                          [userId |-> "u1", revokedAt |-> None,
                           expiresAt |-> MaxClock]]
    /\ role = [u \in Users |-> IF u = "u1" THEN "creator" ELSE "common"]
    /\ tokenRole = role
    /\ forms = <<>>
    /\ questions = <<>>
    /\ options = <<>>
    /\ submissions = <<>>
    /\ answers = {}
    /\ selectedOptions = {}
    /\ now = 0
    /\ call = [p \in Procs |-> Idle]
    /\ resp = NoResp

\* Every request presents t1: refresh and logout in two request slots.
NextRefresh ==
    \/ \E p \in Procs : RefreshValidate(p, "t1")
    \/ \E p \in Procs : RefreshRevoke(p)
    \/ \E p \in Procs, raw \in RawTokens : RefreshPersist(p, raw)
    \/ \E p \in Procs : LogoutFind(p, "t1")
    \/ \E p \in Procs : LogoutRevoke(p)

SpecRefresh == InitRefresh /\ [][NextRefresh]_vars

\* ------------------------------------------------------------- properties

\* Rows of form_submissions held by the pair (f, u) with status st.
RowsOf(f, u, st) ==
    {s \in 1..Len(submissions) :
        /\ submissions[s].formId = f
        /\ submissions[s].respondentUserId = u
        /\ submissions[s].status = st}

AnswersOf(s) == {a \in answers : a.submissionId = s}
SelectedOf(s) == {r \in selectedOptions : r.submissionId = s}

\* C1: in every reachable state each (formId, respondentUserId) pair has at
\* most one submission with status in_progress.
C1_OneInProgressPerPair ==
    \A f \in FormIds, u \in Users : Cardinality(RowsOf(f, u, "in_progress")) <= 1

\* A start lost the insert race, was rejected by the unique index, and the
\* pair holds its one in_progress row.
C1_Witness ==
    /\ resp.op = "start"
    /\ resp.code = "CONFLICT"
    /\ \E f \in FormIds, u \in Users : Cardinality(RowsOf(f, u, "in_progress")) = 1

\* C2: a start call that has passed the load of its form returns without an
\* error, also when another start of the same pair inserts first.
C2_ConcurrentStartReturnsExisting ==
    [][\A p \in Procs :
          (call[p].op = "start" /\ call'[p] = Idle) => resp'.code = "OK"]_vars

\* C3: a start that finds an in_progress submission of its pair returns that
\* submission and changes no row; a start that finds none goes on to insert,
\* and its insert, when the pair still has none, adds exactly one row with
\* status in_progress and submittedAt null and returns its identity.
C3_StartIdempotent ==
    [][\A p \in Procs :
          LET had == RowsOf(call[p].formId, call[p].userId, "in_progress") IN
          /\ (call[p].pc = "start_find" /\ call'[p] # call[p]) =>
                /\ db' = db
                /\ IF had # {}
                     THEN /\ call'[p] = Idle
                          /\ resp'.op = "start"
                          /\ resp'.code = "OK"
                          /\ resp'.id \in had
                     ELSE call'[p].pc = "start_create"
          /\ (call[p].pc = "start_create" /\ call'[p] # call[p] /\ had = {}) =>
                /\ submissions' = Append(submissions,
                       [formId |-> call[p].formId,
                        respondentUserId |-> call[p].userId,
                        status |-> "in_progress",
                        submittedAt |-> None])
                /\ answers' = answers
                /\ selectedOptions' = selectedOptions
                /\ resp'.op = "start"
                /\ resp'.code = "OK"
                /\ resp'.id = Len(submissions) + 1]_vars

\* A start has just returned the caller's in_progress submission, which
\* already holds an answer and a selection.
C3_Witness ==
    /\ resp.op = "start"
    /\ resp.code = "OK"
    /\ resp.id \in 1..Len(submissions)
    /\ submissions[resp.id].status = "in_progress"
    /\ AnswersOf(resp.id) # {}
    /\ SelectedOf(resp.id) # {}

\* C4: a submission whose status is submitted keeps its status and its
\* submittedAt in every later step.
C4_SubmittedIsTerminal ==
    [][\A s \in 1..Len(submissions) :
          submissions[s].status = "submitted" =>
              /\ submissions'[s].status = "submitted"
              /\ submissions'[s].submittedAt = submissions[s].submittedAt]_vars

\* C5: the answer rows and selected-option rows of a submitted submission
\* are the same after every step.
C5_AnswersFrozenOnceSubmitted ==
    [][\A s \in 1..Len(submissions) :
          submissions[s].status = "submitted" =>
              /\ {a \in answers' : a.submissionId = s} = AnswersOf(s)
              /\ {r \in selectedOptions' : r.submissionId = s} = SelectedOf(s)]_vars

\* C6: in the step that changes a submission's status to submitted, the
\* stored answers pass the completeness check for every question of its form.
C6_CompleteAtTransition ==
    [][\A s \in 1..Len(submissions) :
          (submissions[s].status = "in_progress"
              /\ submissions'[s].status = "submitted") => Violating(s) = {}]_vars

\* C7: in every reachable state each (formId, respondentUserId) pair has at
\* most one submission with status submitted.
C7_OneSubmittedPerPair ==
    \A f \in FormIds, u \in Users : Cardinality(RowsOf(f, u, "submitted")) <= 1

\* The submit of a pair's second submission was rejected by the unique
\* index: the pair keeps one submitted row and one in_progress row.
C7_Witness ==
    /\ resp.op \in {"submit", "batch"}
    /\ resp.code = "CONFLICT"
    /\ \E f \in FormIds, u \in Users :
          /\ Cardinality(RowsOf(f, u, "submitted")) = 1
          /\ Cardinality(RowsOf(f, u, "in_progress")) = 1

\* C8: the first step of start on an existing unpublished form ends the call
\* as FORBIDDEN exactly when the actor is neither the form's owner nor an
\* administrator, and on a form id that does not exist ends it as NOT_FOUND;
\* neither creates a row.
C8_StartOnUnpublishedForm ==
    [][\A p \in Procs, f \in FormIds, u \in Users :
          StartLoadForm(p, f, u) =>
              IF ~FormExists(f)
                THEN resp'.code = "NOT_FOUND" /\ submissions' = submissions
              ELSE IF ~forms[f].isPublished
                THEN IF forms[f].ownerUserId = u \/ tokenRole[u] = "admin"
                       THEN call'[p].pc = "start_find"
                       ELSE resp'.code = "FORBIDDEN" /\ submissions' = submissions
              ELSE TRUE]_vars

\* C9: upsertAnswer and upsertAnswersAndSubmit called on a submitted
\* submission end as FORBIDDEN "Submission is not in progress", and called on
\* an in_progress submission by a user who is not its respondent end as
\* FORBIDDEN "You can only answer your own submission"; the call ends in that
\* step and no submission, answer or selected-option row changes.
C9_EditRejected ==
    [][\A p \in Procs :
          (/\ call[p].pc = "idle"
           /\ \/ call'[p].op \in {"upsertAnswer", "batch"}
              \/ resp'.op \in {"upsertAnswer", "batch"}) =>
          \A s \in 1..Len(submissions), u \in Users :
              (/\ \/ submissions[s].status = "submitted"
                  \/ submissions[s].respondentUserId # u
               /\ \/ \E dto \in LifecycleDtos : UpsertLoad(p, s, u, dto)
                  \/ \E dtos \in LifecycleBatches : BatchLoad(p, s, u, dtos)) =>
                  /\ resp'.op \in {"upsertAnswer", "batch"}
                  /\ resp'.code = "FORBIDDEN"
                  /\ resp'.message =
                        IF submissions[s].status = "submitted"
                          THEN "Submission is not in progress"
                          ELSE "You can only answer your own submission"
                  /\ call'[p] = Idle
                  /\ submissions' = submissions
                  /\ answers' = answers
                  /\ selectedOptions' = selectedOptions]_vars

\* An upsertAnswer on a submitted submission that holds a selection has just
\* been refused.
C9_Witness ==
    /\ resp.op = "upsertAnswer"
    /\ resp.code = "FORBIDDEN"
    /\ resp.message = "Submission is not in progress"
    /\ \E s \in 1..Len(submissions) :
          submissions[s].status = "submitted" /\ SelectedOf(s) # {}

\* C10: the submit of a call (submit itself, or the one that ends
\* upsertAnswersAndSubmit) goes on to the status update only when it read the
\* submission as in_progress and the caller as its respondent; called on a
\* submitted submission or by another user it ends as FORBIDDEN in that step
\* and changes no row; and only a status update answers a submit with OK.
C10_SubmitRejected ==
    [][/\ \A p \in Procs :
            (/\ call[p].pc \in {"idle", "batch_submit"}
             /\ \/ call'[p].pc = "submit_update"
                \/ resp'.op \in {"submit", "batch"}) =>
            \A s \in 1..Len(submissions), u \in Users :
                (\/ SubmitLoad(p, s, u)
                 \/ (BatchSubmitLoad(p) /\ s = call[p].submissionId
                                        /\ u = call[p].userId)) =>
                    IF /\ submissions[s].status = "in_progress"
                       /\ submissions[s].respondentUserId = u
                      THEN resp'.code \in {"none", "BAD_REQUEST"}
                      ELSE /\ resp'.op \in {"submit", "batch"}
                           /\ resp'.code = "FORBIDDEN"
                           /\ resp'.message =
                                 IF submissions[s].status # "in_progress"
                                   THEN "Submission is not in progress"
                                   ELSE "You can only submit your own submission"
                           /\ call'[p] = Idle
                           /\ submissions' = submissions
                           /\ answers' = answers
                           /\ selectedOptions' = selectedOptions
       /\ (resp'.op \in {"submit", "batch"} /\ resp'.code = "OK") =>
             \E p \in Procs :
                /\ call[p].pc = "submit_update"
                /\ call'[p] = Idle
                /\ call[p].submissionId = resp'.id
                /\ submissions[resp'.id].respondentUserId = call[p].userId
       /\ \A p \in Procs :
             (call[p].pc # "submit_update" /\ call'[p].pc = "submit_update") =>
                /\ submissions[call'[p].submissionId].status = "in_progress"
                /\ submissions[call'[p].submissionId].respondentUserId
                      = call'[p].userId]_vars

\* A second submit of a submitted submission has just been refused; the
\* submission keeps its submittedAt and its answers.
C10_Witness ==
    /\ resp.op = "submit"
    /\ resp.code = "FORBIDDEN"
    /\ resp.message = "Submission is not in progress"
    /\ \E s \in 1..Len(submissions) :
          /\ submissions[s].status = "submitted"
          /\ submissions[s].submittedAt # None
          /\ AnswersOf(s) # {}

\* The step in which a submit by u, the respondent of the in_progress
\* submission s, reads the submission and checks it.
EligibleSubmitRead(p, s, u) ==
    /\ call[p].pc = "idle"
    /\ call'[p].pc = "submit_update" \/ resp'.op = "submit"
    /\ submissions[s].status = "in_progress"
    /\ submissions[s].respondentUserId = u
    /\ SubmitLoad(p, s, u)

\* The check passed: the call goes on to the status update.
SubmitPassed(p) == call'[p].pc = "submit_update"

\* The check failed: 400, the call is over, the submission row is as it was.
SubmitRefused(p) ==
    /\ resp'.op = "submit"
    /\ resp'.code = "BAD_REQUEST"
    /\ call'[p] = Idle
    /\ submissions' = submissions

StoredCount(s, q) == Cardinality({r \in SelectedOf(s) : r.questionId = q})

FormQuestions(s, type) ==
    {q \in DOMAIN questions :
        questions[q].formId = submissions[s].formId /\ questions[q].type = type}

\* C12: a submit passes its check only if every required radio question of
\* the form has exactly one stored selection and every other radio question
\* at most one; otherwise it is refused and the submission stays as it was.
C12_RadioSelectionCount ==
    [][\A p \in Procs, s \in 1..Len(submissions), u \in Users :
          EligibleSubmitRead(p, s, u) =>
              LET bad == {q \in FormQuestions(s, "radio") :
                             IF questions[q].isRequired
                               THEN StoredCount(s, q) # 1
                               ELSE StoredCount(s, q) > 1}
              IN IF bad # {} THEN SubmitRefused(p)
                 ELSE SubmitPassed(p) \/ SubmitRefused(p)]_vars

\* A submit was refused for a required radio question that holds two
\* selections (stored while the question was a checkbox).
C12_Witness ==
    /\ resp.op = "submit"
    /\ resp.code = "BAD_REQUEST"
    /\ resp.message = "Radio question must have exactly one selected option"
    /\ resp.questionId \in DOMAIN questions
    /\ questions[resp.questionId].type = "radio"
    /\ questions[resp.questionId].isRequired
    /\ StoredCount(1, resp.questionId) = 2

\* The reference rule for a checkbox question with c stored selections.
CheckboxRule(question, c) ==
    IF \/ question.isRequired /\ question.minChoices = None /\ c < 1
       \/ question.minChoices # None /\ c < question.minChoices[1]
      THEN "Not enough selected options"
    ELSE IF question.maxChoices # None /\ c > question.maxChoices[1]
      THEN "Too many selected options"
    ELSE "accept"

\* C13: submit's decision on a checkbox question is the reference rule's: a
\* submit passes only if the rule accepts every checkbox question, is
\* refused if the rule rejects one, names a checkbox question only with the
\* rule's verdict on it, and names the question when it is the only
\* question of the form that fails.
C13_CheckboxRule ==
    [][\A p \in Procs, s \in 1..Len(submissions), u \in Users :
          EligibleSubmitRead(p, s, u) =>
              LET verdict == [q \in FormQuestions(s, "checkbox") |->
                                 CheckboxRule(questions[q], StoredCount(s, q))]
                  rejected == {q \in DOMAIN verdict : verdict[q] # "accept"}
              IN /\ rejected # {} => SubmitRefused(p)
                 /\ SubmitPassed(p) => rejected = {}
                 /\ resp'.questionId \in DOMAIN verdict =>
                       /\ SubmitRefused(p)
                       /\ resp'.message = verdict[resp'.questionId]
                 /\ \A q \in rejected :
                       Violating(s) = {q} => resp'.questionId = q]_vars

\* A submit was refused as too many for a checkbox question that is not
\* required, has maxChoices set and minChoices unset, and holds more
\* selections than maxChoices.
C13_Witness ==
    /\ resp.op = "submit"
    /\ resp.code = "BAD_REQUEST"
    /\ resp.message = "Too many selected options"
    /\ resp.questionId \in DOMAIN questions
    /\ LET q == questions[resp.questionId] IN
          /\ q.type = "checkbox"
          /\ ~q.isRequired
          /\ q.minChoices = None
          /\ q.maxChoices # None
          /\ StoredCount(1, resp.questionId) > q.maxChoices[1]

\* A stored answer with text or with a selected option.
Answered(s, q) ==
    \/ \E a \in AnswersOf(s) :
          a.questionId = q /\ a.textValue # None /\ a.textValue[1] # <<>>
    \/ StoredCount(s, q) > 0

\* C14: a submit passes its check only if every required question of the
\* form has a stored answer with text or with a selected option.
C14_EveryRequiredQuestionAnswered ==
    [][\A p \in Procs, s \in 1..Len(submissions), u \in Users :
          (EligibleSubmitRead(p, s, u) /\ SubmitPassed(p)) =>
              \A q \in DOMAIN questions :
                  (questions[q].formId = submissions[s].formId
                      /\ questions[q].isRequired) => Answered(s, q)]_vars

\* C15: a refused submit names the violating question with the lowest
\* orderIndex.
C15_FirstViolationInFormOrder ==
    [][\A p \in Procs, s \in 1..Len(submissions), u \in Users :
          (EligibleSubmitRead(p, s, u) /\ Violating(s) # {}) =>
              /\ resp'.questionId \in Violating(s)
              /\ \A q \in Violating(s) :
                    questions[resp'.questionId].orderIndex
                        <= questions[q].orderIndex]_vars

\* The stored answers of submission s hold no text for q other than spaces.
Blank(s, q) ==
    \A a \in AnswersOf(s) :
        a.questionId = q =>
            \/ a.textValue = None
            \/ \A i \in 1..Len(a.textValue[1]) : a.textValue[1][i] = " "

\* C11: a submit on a submission that holds, for a required text question,
\* no answer or a text that is empty or only spaces is refused; the error
\* names that question when no other question fails the check; and the
\* submission is still in_progress with no submittedAt.
C11_RequiredTextAnswer ==
    [][\A p \in Procs, s \in 1..Len(submissions), u \in Users :
          EligibleSubmitRead(p, s, u) =>
              \A q \in FormQuestions(s, "text") :
                  (questions[q].isRequired /\ Blank(s, q)) =>
                      /\ SubmitRefused(p)
                      /\ submissions'[s].status = "in_progress"
                      /\ submissions'[s].submittedAt = None
                      /\ Violating(s) \subseteq {q} =>
                            /\ resp'.questionId = q
                            /\ resp'.message = "Missing required text answer"]_vars

\* A submit was refused for the required text question while its stored
\* answer is a text of spaces only.
C11_Witness ==
    /\ resp.op = "submit"
    /\ resp.code = "BAD_REQUEST"
    /\ resp.message = "Missing required text answer"
    /\ resp.questionId = "q2"
    /\ submissions[1].status = "in_progress"
    /\ \E a \in AnswersOf(1) :
          /\ a.questionId = "q2"
          /\ a.textValue # None
          /\ Len(a.textValue[1]) > 0
          /\ Blank(1, "q2")

\* The set of option ids a payload names; empty when the field is omitted.
PayloadSet(dto) ==
    IF dto.selectedOptionIds = None THEN {}
    ELSE {dto.selectedOptionIds[1][i] : i \in 1..Len(dto.selectedOptionIds[1])}

\* What a payload is to leave stored for its question: the text of a text
\* question, the option set of a choice question.
PayloadText(dto) ==
    IF questions[dto.questionId].type = "text" THEN dto.textValue ELSE None

PayloadSelection(dto) ==
    IF questions[dto.questionId].type = "text" THEN {} ELSE PayloadSet(dto)

StoredAnswers(rows, s, q) == {a \in rows : a.submissionId = s /\ a.questionId = q}

StoredSelection(rows, s, q) ==
    {r.optionId : r \in {x \in rows : x.submissionId = s /\ x.questionId = q}}

\* C16: the answer write of upsertAnswer leaves exactly one Answer row for
\* its (submission, question) and changes nothing when the row already holds
\* the payload's value; the selection write, with no other call between its
\* statements, leaves the payload's set of distinct options and changes
\* nothing when that set is already stored.  A second call with the same
\* payload therefore ends in the state the first call left.
C16_UpsertIdempotent ==
    [][\A p \in Procs :
          LET dto == call[p].dtos[1]
              s == call[p].submissionId
              q == dto.questionId
          IN /\ (call[p].pc = "ua_upsert" /\ call'[p].pc = "ua_replace") =>
                   /\ Cardinality(StoredAnswers(answers', s, q)) = 1
                   /\ selectedOptions' = selectedOptions
                   /\ (\E a \in StoredAnswers(answers, s, q) :
                           a.textValue = PayloadText(dto)) => answers' = answers
             /\ (call[p].pc = "ua_replace" /\ call'[p].pc = "ua_commit") =>
                   /\ answers' = answers
                   /\ selectedOptions' = selectedOptions
             /\ (call[p].pc \in {"ua_replace", "ua_commit"} /\ call'[p] = Idle) =>
                   /\ resp'.code = "OK"
                   /\ answers' = answers
                   /\ StoredSelection(selectedOptions', s, q) = PayloadSelection(dto)
                   /\ StoredSelection(selectedOptions, s, q) = PayloadSelection(dto)
                         => selectedOptions' = selectedOptions]_vars

\* A second call with the payload [o1, o1, o2] has written its answer row
\* and is about to commit its selection, on the one row and the selection
\* {o1, o2} that the first call left.
C16_Witness ==
    /\ call["p1"].pc = "ua_commit"
    /\ call["p1"].dtos = <<Dto("q1", None, Some(<<"o1", "o1", "o2">>))>>
    /\ Cardinality(StoredAnswers(answers, 1, "q1")) = 1
    /\ StoredSelection(selectedOptions, 1, "q1") = {"o1", "o2"}

\* C17: the selection write of upsertAnswer on a choice question leaves, for
\* its answer, exactly the distinct options of the payload, whatever was
\* stored before: [A, A, B] leaves {A, B}, an empty or omitted
\* selectedOptionIds leaves none; the selections of other answers stay.
C17_SelectionReplaced ==
    [][\A p \in Procs :
          (/\ call[p].pc = "ua_commit"
           /\ call'[p] = Idle
           /\ questions[call[p].dtos[1].questionId].type # "text") =>
              LET dto == call[p].dtos[1]
                  s == call[p].submissionId
                  q == dto.questionId
                  mine(r) == r.submissionId = s /\ r.questionId = q
              IN /\ {r \in selectedOptions' : mine(r)} =
                        {[submissionId |-> s, questionId |-> q, optionId |-> o] :
                            o \in PayloadSet(dto)}
                 /\ {r \in selectedOptions' : ~mine(r)} =
                        {r \in selectedOptions : ~mine(r)}
                 /\ dto.selectedOptionIds \in {None, Some(<<>>)} =>
                        ~\E r \in selectedOptions' : mine(r)
                 /\ dto.selectedOptionIds = Some(<<"o1", "o1", "o2">>) =>
                        StoredSelection(selectedOptions', s, q) = {"o1", "o2"}]_vars

\* The payload [o1, o1, o2] left {o1, o2} stored for q1, and a later call
\* that omits selectedOptionIds is about to commit its selection.
C17_Witness ==
    /\ call["p1"].pc = "ua_commit"
    /\ Cardinality(call["p1"].deleted) = 2
    /\ call["p1"].dtos = <<Dto("q1", None, None)>>
    /\ StoredSelection(selectedOptions, 1, "q1") = {"o1", "o2"}

\* The fields of a payload do not fit the type of its question.
Incompatible(dto) ==
    IF questions[dto.questionId].type = "text"
      THEN PayloadSet(dto) # {} \/ dto.textValue = None
      ELSE dto.textValue # None

\* C18: an upsertAnswer by the respondent on an in_progress submission whose
\* payload names a selected option or no text for a text question, or a text
\* for a checkbox or radio question, ends in its first step with an error,
\* and the Answer and AnswerSelectedOption rows are as they were.
C18_ShapeRejectedBeforeWrite ==
    [][\A p \in Procs, dto \in AnswerDtos :
          (/\ call[p].pc = "idle"
           /\ resp'.op = "upsertAnswer" \/ call'[p].pc = "ua_upsert"
           /\ submissions[1].status = "in_progress"
           /\ dto.questionId \in DOMAIN questions
           /\ Incompatible(dto)
           /\ UpsertLoad(p, 1, "u2", dto)) =>
              /\ resp'.code \in {"BAD_REQUEST", "VALIDATION_ERROR"}
              /\ call'[p] = Idle
              /\ answers' = answers
              /\ selectedOptions' = selectedOptions]_vars

\* An upsertAnswer naming a selected option for the text question was
\* refused while the submission holds answers and selections.
C18_Witness ==
    /\ resp.op = "upsertAnswer"
    /\ resp.code = "BAD_REQUEST"
    /\ resp.message = "Text questions cannot have selectedOptionIds"
    /\ StoredAnswers(answers, 1, "q2") # {}
    /\ StoredSelection(selectedOptions, 1, "q1") # {}
    /\ submissions[1].status = "in_progress"

\* The payload is a selection for a radio question, of that question's own
\* options and with no text.
RadioSelection(dto) ==
    /\ dto.questionId \in DOMAIN questions
    /\ questions[dto.questionId].type = "radio"
    /\ dto.textValue = None
    /\ \A o \in PayloadSet(dto) : o \in DOMAIN options /\ options[o] = dto.questionId

RadioRefused(p, op) ==
    /\ resp'.op = op
    /\ resp'.code = "BAD_REQUEST"
    /\ resp'.message = "Radio questions allow only one selected option"
    /\ call'[p] = Idle
    /\ answers' = answers
    /\ selectedOptions' = selectedOptions

\* C19: on a radio question upsertAnswer goes on to its writes exactly when
\* the payload names at most one distinct option, and then stores that set;
\* with two distinct options it is refused and the stored rows stay.  The
\* transaction of a batch is refused as a whole, every write undone, when one
\* of its answers names two distinct options for a radio question, and
\* otherwise stores each radio answer's set.
C19_RadioAtMostOne ==
    [][\A p \in Procs :
          /\ \A dto \in AnswerDtos :
                (/\ call[p].pc = "idle"
                 /\ resp'.op = "upsertAnswer" \/ call'[p].pc = "ua_upsert"
                 /\ submissions[1].status = "in_progress"
                 /\ RadioSelection(dto)
                 /\ UpsertLoad(p, 1, "u2", dto)) =>
                    IF Cardinality(PayloadSet(dto)) <= 1
                      THEN call'[p].pc = "ua_upsert" /\ call'[p].dtos = <<dto>>
                      ELSE RadioRefused(p, "upsertAnswer")
          /\ (/\ call[p].pc = "ua_commit"
              /\ call'[p] = Idle
              /\ RadioSelection(call[p].dtos[1])) =>
                 /\ Cardinality(PayloadSet(call[p].dtos[1])) <= 1
                 /\ StoredSelection(selectedOptions', call[p].submissionId,
                                    call[p].dtos[1].questionId)
                        = PayloadSet(call[p].dtos[1])
          /\ (call[p].pc = "batch_tx" /\ call'[p] # call[p]) =>
                LET dtos == call[p].dtos
                    radio == {i \in 1..Len(dtos) : RadioSelection(dtos[i])}
                IN IF \E i \in radio : Cardinality(PayloadSet(dtos[i])) > 1
                     THEN RadioRefused(p, "batch")
                     ELSE (\A i \in 1..Len(dtos) : ~Incompatible(dtos[i])) =>
                            /\ call'[p].pc = "batch_submit"
                            /\ \A i \in radio :
                                  StoredSelection(selectedOptions', call[p].submissionId,
                                                  dtos[i].questionId)
                                      = PayloadSet(dtos[i])]_vars

\* A batch was refused for a radio answer with two distinct options while
\* the radio question holds {o3}, stored by a payload [o3, o3].
C19_Witness ==
    /\ resp.op = "batch"
    /\ resp.code = "BAD_REQUEST"
    /\ resp.message = "Radio questions allow only one selected option"
    /\ StoredSelection(selectedOptions, 1, "q3") = {"o3"}

\* C20: every stored selected option is an option of the question of the
\* answer that holds it.
C20_SelectedOptionOfOwnQuestion ==
    \A r \in selectedOptions :
        r.optionId \in DOMAIN options /\ options[r.optionId] = r.questionId

\* C23: listByForm on a form that does not exist ends as NOT_FOUND; on an
\* existing form it ends as FORBIDDEN unless the caller owns the form or
\* the request carries the admin role, and only then goes on to read and
\* return the form's submissions; no step of it changes a stored row.
C23_ListByFormOwnerOrAdmin ==
    [][\A p \in Procs :
          /\ \A f \in FormIds, u \in Users :
                (call[p].pc = "idle" /\ ListLoadForm(p, f, u)) =>
                    /\ UNCHANGED db
                    /\ IF ~FormExists(f)
                         THEN resp'.code = "NOT_FOUND" /\ call'[p] = Idle
                       ELSE IF forms[f].ownerUserId = u \/ tokenRole[u] = "admin"
                         THEN call'[p].pc = "list_find"
                       ELSE resp'.code = "FORBIDDEN" /\ call'[p] = Idle
          /\ (call[p].op = "listByForm" /\ call'[p] = Idle) =>
                /\ UNCHANGED db
                /\ resp'.op = "listByForm"
                /\ resp'.code = "OK"
                /\ resp'.list = {s \in 1..Len(submissions) :
                                    submissions[s].formId = call[p].formId}]_vars

\* A caller who neither owns the form nor is an administrator was refused
\* while the form has a submission.
C23_Witness ==
    /\ resp.op = "listByForm"
    /\ resp.code = "FORBIDDEN"
    /\ \E s \in 1..Len(submissions) : submissions[s].formId = 1

\* C24: the stored selection of a choice answer is always empty or the set
\* of distinct options of one payload sent for its question, never a mix of
\* two payloads, and a radio answer never holds more than one option.
C24_OverwriteNotMerge ==
    \A q \in {"q1", "q3"} :
        /\ StoredSelection(selectedOptions, 1, q) \in
              {{}} \cup {PayloadSet(dto) :
                           dto \in {d \in ConcurrentDtos : d.questionId = q}}
        /\ questions[q].type = "radio" => StoredCount(1, q) <= 1

\* C25: in every state in which an upsertAnswer has deleted a non-empty
\* selection inside its transaction and has a non-empty selection to create,
\* the rows a reader gets for that answer are not empty.
C25_NoTransientEmptySelection ==
    \A p \in Procs :
        (/\ call[p].pc = "ua_commit"
         /\ call[p].deleted # {}
         /\ PayloadSet(call[p].dtos[1]) # {}) =>
            StoredSelection(selectedOptions, call[p].submissionId,
                            call[p].dtos[1].questionId) # {}

\* The transaction of one slot has deleted the stored selection and not yet
\* committed while the other slot, a listByForm past its check, is about to
\* read the submissions with their answers.
C25_Witness ==
    /\ call["p1"].pc = "ua_commit"
    /\ call["p1"].deleted # {}
    /\ PayloadSet(call["p1"].dtos[1]) # {}
    /\ call["p2"].pc = "list_find"

\* Every answer of rows names a stored question of the form of its submission.
AnswersOfOwnForm(rows) ==
    \A a \in rows :
        /\ a.questionId \in DOMAIN questions
        /\ questions[a.questionId].formId = submissions[a.submissionId].formId

\* The body names a question that is not stored or is of another form than
\* submission s.
ForeignQuestion(s, dto) ==
    \/ dto.questionId \notin DOMAIN questions
    \/ questions[dto.questionId].formId # submissions[s].formId

\* C21: after every step each stored answer names a question of the form of
\* its submission; an upsertAnswer naming a missing question or a question of
\* another form, and a batch holding one such answer, end in their first
\* step with an error and leave the answers and selections as they were.
C21_AnswerQuestionOfOwnForm ==
    [][/\ AnswersOfOwnForm(answers')
       /\ \A p \in Procs, s \in 1..Len(submissions) :
            (/\ call[p].pc = "idle"
             /\ submissions[s].status = "in_progress") =>
               /\ \A dto \in ForeignDtos :
                     (ForeignQuestion(s, dto) /\ UpsertLoad(p, s, "u2", dto)) =>
                         /\ resp'.code \in {"NOT_FOUND", "BAD_REQUEST"}
                         /\ call'[p] = Idle
                         /\ answers' = answers
                         /\ selectedOptions' = selectedOptions
               /\ \A dtos \in ForeignBatches :
                     (/\ \E i \in 1..Len(dtos) : ForeignQuestion(s, dtos[i])
                      /\ BatchLoad(p, s, "u2", dtos)) =>
                         /\ resp'.code = "BAD_REQUEST"
                         /\ call'[p] = Idle
                         /\ answers' = answers
                         /\ selectedOptions' = selectedOptions]_vars

\* A batch was refused for a question of another form while answers are
\* stored.
C21_Witness ==
    /\ resp.op = "batch"
    /\ resp.code = "BAD_REQUEST"
    /\ resp.message = "Question does not belong to this form"
    /\ answers # {}

\* C22: a batch whose transaction changes stored answers or selections goes
\* on to a submit that passes its check on the rows then stored, so that no
\* batch ends with an error and its writes left behind.
C22_BatchAllOrNothing ==
    [][\A p \in Procs :
          (/\ call[p].pc = "batch_tx"
           /\ call'[p].pc = "batch_submit"
           /\ <<answers', selectedOptions'>> # <<answers, selectedOptions>>) =>
              Violating(call[p].submissionId)' = {}]_vars

\* C26: every stored answer of a checkbox or radio question has no text, and
\* no selected option is stored for an answer of a text question.
C26_FieldsFitQuestionType ==
    /\ \A a \in answers :
          questions[a.questionId].type # "text" => a.textValue = None
    /\ \A r \in selectedOptions : questions[r.questionId].type # "text"

\* After single and batch writes: the checkbox answer holds a selection and
\* no text, the text answer a text and no selection.
C26_Witness ==
    /\ resp.op = "batch"
    /\ StoredSelection(selectedOptions, 1, "q1") # {}
    /\ \E a \in StoredAnswers(answers, 1, "q1") : a.textValue = None
    /\ \E a \in StoredAnswers(answers, 1, "q2") : a.textValue = Some(<<"a">>)
    /\ StoredSelection(selectedOptions, 1, "q2") = {}

\* C27: every stored radio question has each bound unset or equal to 1.
C27_RadioBoundsAreOne ==
    \A q \in DOMAIN questions :
        questions[q].type = "radio" =>
            /\ questions[q].minChoices \in {None, Some(1)}
            /\ questions[q].maxChoices \in {None, Some(1)}

\* C28: every stored text question has both bounds unset and owns no option.
C28_TextHasNoChoices ==
    \A q \in DOMAIN questions :
        questions[q].type = "text" =>
            /\ questions[q].minChoices = None
            /\ questions[q].maxChoices = None
            /\ \A o \in DOMAIN options : options[o] # q

\* C29: the status update of a submit that passed the completeness check,
\* on a submission that is still in_progress, sets the status to submitted
\* and answers without an error.
C29_InProgressCanBeSubmitted ==
    [][\A p \in Procs :
          (/\ call[p].pc = "submit_update"
           /\ call'[p] = Idle
           /\ submissions[call[p].submissionId].status = "in_progress") =>
              /\ resp'.code = "OK"
              /\ submissions'[call[p].submissionId].status = "submitted"]_vars

\* C30: of the calls that present the token t1 at most one refresh succeeds:
\* each success stores one new token, so the table never holds more than t1
\* and one token more.
C30_RefreshTokenRedeemedOnce ==
    Cardinality(DOMAIN refreshTokens) <= 2

====
